---- MODULE Spec2Model ----
(***************************************************************************)
(* Model of StringInterner (src/src/interner.rs): the deduplication index  *)
(* `dedup` (a raw hash table keyed by symbol), the instance's `hasher` and *)
(* the `backend` that owns the strings.                                    *)
(*                                                                         *)
(* The hash table is the hashbrown raw table the code drives through       *)
(* raw_entry()/raw_entry_mut(): entries are filed under the hash code that *)
(* was handed to the table, a probe with from_hash(hash, eq) visits the    *)
(* entries filed under `hash` in probe order, and an insertion into a full *)
(* table resizes it and re-files every old entry under the code the        *)
(* `hasher` closure of insert_with_hasher gives for it.                    *)
(*                                                                         *)
(* The backend and the symbol type live outside src/; they are modelled    *)
(* from the contract of spec.md section 4.2 / 6.                           *)
(***************************************************************************)
EXTENDS Integers, Sequences, FiniteSets, TLC

(* ------------------------------ bounds -------------------------------- *)
NumChars == 3        \* bytes 1..NumChars; strings are "" and the 1-byte strings
MaxSymbols == 5      \* cardinality of the symbol space (usize -> S::try_from_usize)
HashSpace == 2       \* hash codes are 0..HashSpace-1 (u64 in the program)
MaxCap == 4          \* largest capacity hint passed to with_capacity*
MaxIter == 4         \* most strings an iterator given to from_iter / extend yields

Alphabet == 1..NumChars
Strings == {<<>>} \cup {<<c>> : c \in Alphabet}
Symbols == 1..MaxSymbols
\* The BuildHasher values of type H: the one Default::default() yields (0)
\* and one keyed differently.
Hashers == {0, 1}
Caps == 0..MaxCap

\* The strings an iterator yields, with the lower bound its size_hint()
\* reports (at most the number of strings it yields).
RECURSIVE SeqsUpTo(_)
SeqsUpTo(n) ==
    IF n = 0 THEN {<<>>}
    ELSE LET shorter == SeqsUpTo(n - 1)
         IN shorter \cup {Append(q, s) : q \in shorter, s \in Strings}

Iterators(most) ==
    UNION {{[items |-> q, size_hint |-> n] : n \in 0..Len(q)} :
             q \in SeqsUpTo(most)}

None == [some |-> FALSE]
Some(v) == [some |-> TRUE, val |-> v]

(* ------------------------------ hashing ------------------------------- *)
\* Hasher::write for one byte, on the scaled-down hash width.
write_u8(state, b) == (state * 31 + b) % HashSpace

RECURSIVE write(_, _)
write(state, bytes) ==
    IF bytes = <<>> THEN state
    ELSE write(write_u8(state, Head(bytes)), Tail(bytes))

\* <str as Hash>::hash writes the bytes and then the 0xff terminator;
\* build_hasher() starts from the state the BuildHasher value (its key) fixes.
make_hash(hasher, value) == write_u8(write(hasher, value), 255)

(* --------------------- return values of the operations ---------------- *)
Returned(v) == [panic |-> FALSE, val |-> v]
Panicked(msg) == [panic |-> TRUE, msg |-> msg]

(* ------------------------------ backend ------------------------------- *)
\* The backend holds the interned strings in the order they were interned;
\* the symbol of a string is its position (S::try_from_usize).
backend_default == <<>>

backend_with_capacity(cap) == <<>>

\* intern(content): a fresh symbol and the content stored under it, or no
\* symbol when the symbol space is exhausted (the call then panics).
backend_intern(backend, string) ==
    IF Len(backend) >= MaxSymbols
    THEN [ok |-> FALSE, backend |-> backend, symbol |-> 0]
    ELSE [ok |-> TRUE, backend |-> Append(backend, string),
          symbol |-> Len(backend) + 1]

\* intern_static(content): as intern, the bytes may be borrowed, not copied.
backend_intern_static(backend, string) ==
    IF Len(backend) >= MaxSymbols
    THEN [ok |-> FALSE, backend |-> backend, symbol |-> 0]
    ELSE [ok |-> TRUE, backend |-> Append(backend, string),
          symbol |-> Len(backend) + 1]

backend_resolve(backend, symbol) ==
    IF symbol \in 1..Len(backend) THEN Some(backend[symbol]) ELSE None

backend_clone(backend) == backend

\* Backend equality: the same strings under the same symbols.
backend_eq(backend, rhs) == backend = rhs

(* ----------------------------- hash table ----------------------------- *)
\* HashMap<S, (), ()>: `buckets` is the allocated bucket count (1 for the
\* unallocated empty table), `entries` the stored symbols in probe order,
\* each with the hash code it is filed under.
RECURSIVE next_power_of_two(_, _)
next_power_of_two(n, p) == IF p >= n THEN p ELSE next_power_of_two(n, 2 * p)

capacity_to_buckets(cap) ==
    IF cap = 0 THEN 1
    ELSE IF cap < 4 THEN 4
    ELSE IF cap < 8 THEN 8
    ELSE next_power_of_two((cap * 8) \div 7, 1)

bucket_mask_to_capacity(buckets) ==
    IF buckets - 1 < 8 THEN buckets - 1 ELSE (buckets \div 8) * 7

HashMap_default == [buckets |-> 1, entries |-> <<>>]

HashMap_with_capacity_and_hasher(cap) ==
    [buckets |-> capacity_to_buckets(cap), entries |-> <<>>]

HashMap_len(dedup) == Len(dedup.entries)

HashMap_clone(dedup) == dedup

\* Positions a probe with `hash` visits, in probe order.
probed(dedup, hash) ==
    {k \in 1..Len(dedup.entries) : dedup.entries[k].hash = hash}

\* raw_entry().from_hash(hash, is_match): position of the first entry filed
\* under `hash` whose key satisfies is_match, 0 when the probe ends vacant.
\* The closure is_match is given as its graph over the symbols.
from_hash(dedup, hash, is_match) ==
    LET hits == {k \in probed(dedup, hash) : is_match[dedup.entries[k].key]}
    IN IF hits = {} THEN 0
       ELSE CHOOSE k \in hits : \A j \in hits : k <= j

\* RawVacantEntryMut::insert_with_hasher(hash, key, (), hasher): a table
\* with no room left is resized first, every old entry being re-filed under
\* hasher(key); the new key is then filed under `hash`. The closure hasher
\* is given as its graph over the symbols.
insert_with_hasher(dedup, hash, key, hasher) ==
    LET items == Len(dedup.entries)
        full == bucket_mask_to_capacity(dedup.buckets)
        grown == IF items < full THEN dedup
                 ELSE [buckets |-> capacity_to_buckets(
                                     IF items + 1 > full + 1 THEN items + 1
                                                             ELSE full + 1),
                       entries |-> [k \in 1..items |->
                                     [hash |-> hasher[dedup.entries[k].key],
                                      key |-> dedup.entries[k].key]]]
    IN [grown EXCEPT !.entries = Append(@, [hash |-> hash, key |-> key])]

(* --------------------------- StringInterner --------------------------- *)
\* `Default::default()` of H: the default hasher value. Any other value of H
\* reaches an instance through with_hasher / with_capacity_and_hasher.
Default_default == 0

new(hasher) ==
    [dedup |-> HashMap_default, hasher |-> hasher, backend |-> backend_default]

with_capacity(cap, hasher) ==
    [dedup |-> HashMap_with_capacity_and_hasher(cap), hasher |-> hasher,
     backend |-> backend_with_capacity(cap)]

with_hasher(hash_builder) ==
    [dedup |-> HashMap_default, hasher |-> hash_builder,
     backend |-> backend_default]

with_capacity_and_hasher(cap, hash_builder) ==
    [dedup |-> HashMap_with_capacity_and_hasher(cap), hasher |-> hash_builder,
     backend |-> backend_with_capacity(cap)]

\* As clone, but the index is left behind: the copy starts with an empty one.
clone_unindexed(self, hasher) ==
    [dedup |-> HashMap_default, hasher |-> hasher,
     backend |-> backend_clone(self.backend)]

\* As clone, but the index is copied next to a freshly constructed backend.
clone_fresh_backend(self, hasher) ==
    [dedup |-> HashMap_clone(self.dedup), hasher |-> hasher,
     backend |-> backend_default]

\* Clone::clone; `hasher` is the value Default::default() yields.
clone(self, hasher) ==
    [dedup |-> HashMap_clone(self.dedup), hasher |-> hasher,
     backend |-> backend_clone(self.backend)]

len(self) == HashMap_len(self.dedup)

is_empty(self) == len(self) = 0

\* As eq, but comparing the instances field by field (the derived PartialEq).
eq_derived(self, rhs) == self = rhs

\* PartialEq::eq
eq(self, rhs) ==
    len(self) = len(rhs) /\ backend_eq(self.backend, rhs.backend)

\* The closure both probes pass to from_hash:
\*   string == backend.resolve(*symbol).expect("encountered missing symbol")
is_same_string_any(backend, string, symbol) ==
    backend_resolve(backend, symbol).some

is_same_string_len(backend, string, symbol) ==
    LET resolved == backend_resolve(backend, symbol)
    IN resolved.some /\ Len(resolved.val) = Len(string)

is_same_string(backend, string, symbol) ==
    LET resolved == backend_resolve(backend, symbol)
    IN resolved.some /\ resolved.val = string

\* The probe up to position `found` (the whole probe when found = 0) met a
\* symbol the backend does not resolve: the closure's expect() panics.
missing_symbol(self, hash, found) ==
    \E k \in probed(self.dedup, hash) :
        /\ (found = 0 \/ k <= found)
        /\ ~backend_resolve(self.backend, self.dedup.entries[k].key).some

\* unsafe { intern_fn(backend, string) }: intern_fn is B::intern or
\* B::intern_static.
call_intern_fn(intern_fn, backend, string) ==
    IF intern_fn = "B::intern" THEN backend_intern(backend, string)
    ELSE backend_intern_static(backend, string)

\* As get_or_intern_using, but the table entry is made before the backend
\* is asked for the symbol.
get_or_intern_using_entry_first(self, string, intern_fn) ==
    LET hash == make_hash(self.hasher, string)
        is_match == [symbol \in Nat |->
                        is_same_string(self.backend, string, symbol)]
        found == from_hash(self.dedup, hash, is_match)
        interned == call_intern_fn(intern_fn, self.backend, string)
        hasher == [symbol \in Nat |-> hash]
        symbol == Len(self.backend) + 1
        inserted == [self EXCEPT
                       !.dedup = insert_with_hasher(self.dedup, hash, symbol,
                                                    hasher)]
    IN IF missing_symbol(self, hash, found)
       THEN [self |-> self, ret |-> Panicked("encountered missing symbol")]
       ELSE IF found # 0
       THEN [self |-> self, ret |-> Returned(self.dedup.entries[found].key)]
       ELSE IF ~interned.ok
       THEN [self |-> inserted, ret |-> Panicked("symbol space exhausted")]
       ELSE [self |-> [inserted EXCEPT !.backend = interned.backend],
             ret |-> Returned(interned.symbol)]

\* As get_or_intern_using, but without the Occupied arm: the string is
\* handed to the backend whether the probe matched or not.
get_or_intern_using_unprobed(self, string, intern_fn) ==
    LET hash == make_hash(self.hasher, string)
        interned == call_intern_fn(intern_fn, self.backend, string)
        hasher == [symbol \in Nat |-> hash]
    IN IF ~interned.ok
       THEN [self |-> self, ret |-> Panicked("symbol space exhausted")]
       ELSE [self |-> [self EXCEPT
                         !.backend = interned.backend,
                         !.dedup = insert_with_hasher(self.dedup, hash,
                                                      interned.symbol, hasher)],
             ret |-> Returned(interned.symbol)]

\* As get_or_intern_using, but the closure handed to insert_with_hasher
\* invokes the hasher again, on the string each symbol resolves to.
get_or_intern_using_rehashing(self, string, intern_fn) ==
    LET hash == make_hash(self.hasher, string)
        is_match == [symbol \in Nat |->
                        is_same_string(self.backend, string, symbol)]
        found == from_hash(self.dedup, hash, is_match)
        interned == call_intern_fn(intern_fn, self.backend, string)
        hasher == [symbol \in Nat |->
                     LET resolved == backend_resolve(interned.backend, symbol)
                     IN IF resolved.some
                        THEN make_hash(self.hasher, resolved.val) ELSE hash]
    IN IF missing_symbol(self, hash, found)
       THEN [self |-> self, ret |-> Panicked("encountered missing symbol")]
       ELSE IF found # 0
       THEN [self |-> self, ret |-> Returned(self.dedup.entries[found].key)]
       ELSE IF ~interned.ok
       THEN [self |-> self, ret |-> Panicked("symbol space exhausted")]
       ELSE [self |-> [self EXCEPT
                         !.backend = interned.backend,
                         !.dedup = insert_with_hasher(self.dedup, hash,
                                                      interned.symbol, hasher)],
             ret |-> Returned(interned.symbol)]

get_or_intern_using(self, string, intern_fn) ==
    LET hash == make_hash(self.hasher, string)
        is_match == [symbol \in Nat |->
                        is_same_string(self.backend, string, symbol)]
        found == from_hash(self.dedup, hash, is_match)
        interned == call_intern_fn(intern_fn, self.backend, string)
        hasher == [symbol \in Nat |-> hash]
    IN IF missing_symbol(self, hash, found)
       THEN [self |-> self, ret |-> Panicked("encountered missing symbol")]
       ELSE IF found # 0
       THEN [self |-> self, ret |-> Returned(self.dedup.entries[found].key)]
       ELSE IF ~interned.ok
       THEN [self |-> self, ret |-> Panicked("symbol space exhausted")]
       ELSE [self |-> [self EXCEPT
                         !.backend = interned.backend,
                         !.dedup = insert_with_hasher(self.dedup, hash,
                                                      interned.symbol, hasher)],
             ret |-> Returned(interned.symbol)]

get_or_intern(self, string) ==
    get_or_intern_using(self, string, "B::intern")

get_or_intern_static(self, string) ==
    get_or_intern_using(self, string, "B::intern_static")

\* As get, but through the interning path.
get_interning(self, string) ==
    LET r == get_or_intern(self, string)
    IN [self |-> r.self,
        ret |-> IF r.ret.panic THEN r.ret ELSE Returned(Some(r.ret.val))]

get(self, string) ==
    LET hash == make_hash(self.hasher, string)
        is_match == [symbol \in Nat |->
                        is_same_string(self.backend, string, symbol)]
        found == from_hash(self.dedup, hash, is_match)
    IN [self |-> self,
        ret |-> IF missing_symbol(self, hash, found)
                THEN Panicked("encountered missing symbol")
                ELSE IF found = 0 THEN Returned(None)
                ELSE Returned(Some(self.dedup.entries[found].key))]

\* Extend::extend: get_or_intern of every string the iterator yields, in
\* order, the symbols being dropped; a panic of get_or_intern ends the loop.
RECURSIVE extend_items(_, _)
extend_items(self, items) ==
    IF items = <<>> THEN [self |-> self, ret |-> Returned(<<>>)]
    ELSE LET r == get_or_intern(self, Head(items))
         IN IF r.ret.panic THEN r
            ELSE extend_items(r.self, Tail(items))

extend(self, iter) == extend_items(self, iter.items)

\* FromIterator::from_iter
from_iter(iter, hasher) ==
    LET capacity == iter.size_hint
        interner == with_capacity(capacity, hasher)
        extended == extend(interner, iter)
    IN [self |-> extended.self,
        ret |-> IF extended.ret.panic THEN extended.ret
                ELSE Returned(extended.self)]

\* As resolve, but an unknown symbol is taken for an inconsistency.
resolve_expect(self, symbol) ==
    LET resolved == backend_resolve(self.backend, symbol)
    IN [self |-> self,
        ret |-> IF resolved.some THEN Returned(resolved)
                ELSE Panicked("encountered missing symbol")]

resolve(self, symbol) ==
    [self |-> self, ret |-> Returned(backend_resolve(self.backend, symbol))]

(* ------------------------------- state -------------------------------- *)
VARIABLES
    interners,   \* the instances built so far: [Built -> StringInterner]
    issued,      \* per instance, the <<content, symbol>> pairs of the symbols
                 \* get_or_intern* returned (for the clone: also those its
                 \* original returned before the clone())
    cloned,      \* the <<content, symbol>> pairs the original had at clone()
    diverged     \* the instance that interned since the clone() (0: neither)

vars == <<interners, issued, cloned, diverged>>

Built == DOMAIN interners

NoneIssued == {}

Init ==
    /\ interners = <<>>
    /\ issued = <<>>
    /\ cloned = NoneIssued
    /\ diverged = 0

Construct(interner) ==
    /\ Built = {}
    /\ interners' = (1 :> interner)
    /\ issued' = (1 :> NoneIssued)
    /\ UNCHANGED <<cloned, diverged>>

New == Construct(new(Default_default))

WithCapacity ==
    \E cap \in Caps : Construct(with_capacity(cap, Default_default))

WithHasher == \E h \in Hashers : Construct(with_hasher(h))

WithCapacityAndHasher ==
    \E cap \in Caps, h \in Hashers :
        Construct(with_capacity_and_hasher(cap, h))

\* interners[2] = interners[1].clone(); instance 1 is the original (the
\* instance a constructor built), instance 2 its clone. The clone inherits
\* the symbols the original has issued so far.
Clone ==
    /\ Built = {1}
    /\ interners' = interners @@ (2 :> clone(interners[1], Default_default))
    /\ issued' = issued @@ (2 :> issued[1])
    /\ cloned' = issued[1]
    /\ UNCHANGED diverged

\* A call on one instance reads and writes that instance only, so of the
\* interleavings after a clone() the ones kept are those in which one of
\* the two instances goes on interning and the other is only queried.
MayIntern(i) == i \in Built /\ diverged \in {0, i}

\* A mutating call: the instance becomes r.self, a returned symbol is
\* recorded as issued for the content.
Mutate(i, string, r) ==
    /\ interners' = [interners EXCEPT ![i] = r.self]
    /\ issued' = IF r.ret.panic THEN issued
                 ELSE [issued EXCEPT ![i] = @ \cup {<<string, r.ret.val>>}]
    /\ diverged' = IF Built = {1, 2} /\ r.self # interners[i] THEN i
                   ELSE diverged
    /\ UNCHANGED cloned

GetOrIntern ==
    \E i \in Built, string \in Strings :
        /\ MayIntern(i)
        /\ Mutate(i, string, get_or_intern(interners[i], string))

GetOrInternStatic ==
    \E i \in Built, string \in Strings :
        /\ MayIntern(i)
        /\ Mutate(i, string, get_or_intern_static(interners[i], string))

\* A call through &self: the instance becomes r.self.
Query(i, r) ==
    /\ interners' = [interners EXCEPT ![i] = r.self]
    /\ UNCHANGED <<issued, cloned, diverged>>

Get ==
    \E i \in Built, string \in Strings : Query(i, get(interners[i], string))

Resolve ==
    \E i \in Built, symbol \in Symbols :
        Query(i, resolve(interners[i], symbol))

LenOf == \E i \in Built : Query(i, [self |-> interners[i]])

Next ==
    \/ New
    \/ WithCapacity
    \/ WithHasher
    \/ WithCapacityAndHasher
    \/ Clone
    \/ GetOrIntern
    \/ GetOrInternStatic
    \/ Get
    \/ Resolve
    \/ LenOf

Spec == Init /\ [][Next]_vars

(* ------------- two instances that are given the same calls ------------ *)
\* Instance 1 and instance 2 are built by two constructors; every later
\* call is made on both, with the same arguments.
Paired(a, b) ==
    /\ Built = {}
    /\ interners' = <<a, b>>
    /\ issued' = <<NoneIssued, NoneIssued>>
    /\ UNCHANGED <<cloned, diverged>>

\* with_capacity(cap) next to new()
HintWithCapacity ==
    \E cap \in Caps :
        Paired(with_capacity(cap, Default_default), new(Default_default))

\* with_capacity_and_hasher(cap, h) next to with_hasher(h)
HintWithCapacityAndHasher ==
    \E cap \in Caps, h \in Hashers :
        Paired(with_capacity_and_hasher(cap, h), with_hasher(h))

\* The same mutating call on both instances; r[i] is its outcome on
\* instance i.
Both(string, r) ==
    /\ Built = {1, 2}
    /\ interners' = [i \in {1, 2} |-> r[i].self]
    /\ issued' = [i \in {1, 2} |->
                    IF r[i].ret.panic THEN issued[i]
                    ELSE issued[i] \cup {<<string, r[i].ret.val>>}]
    /\ UNCHANGED <<cloned, diverged>>

BothGetOrIntern ==
    \E string \in Strings :
        Both(string, [i \in {1, 2} |-> get_or_intern(interners[i], string)])

BothGetOrInternStatic ==
    \E string \in Strings :
        Both(string,
             [i \in {1, 2} |-> get_or_intern_static(interners[i], string)])

\* The same call through &self on both instances.
BothQuery(r) ==
    /\ Built = {1, 2}
    /\ interners' = [i \in {1, 2} |-> r[i].self]
    /\ UNCHANGED <<issued, cloned, diverged>>

BothGet ==
    \E string \in Strings :
        BothQuery([i \in {1, 2} |-> get(interners[i], string)])

BothResolve ==
    \E symbol \in Symbols :
        BothQuery([i \in {1, 2} |-> resolve(interners[i], symbol)])

BothLen == BothQuery([i \in {1, 2} |-> [self |-> interners[i]]])

\* interners[1] == interners[2]
Eq ==
    /\ Built = {1, 2}
    /\ eq(interners[1], interners[2]) \in BOOLEAN
    /\ BothQuery([i \in {1, 2} |-> [self |-> interners[i]]])

NextHint ==
    \/ HintWithCapacity
    \/ HintWithCapacityAndHasher
    \/ BothGetOrIntern
    \/ BothGetOrInternStatic
    \/ BothGet
    \/ BothResolve
    \/ BothLen
    \/ Eq

SpecHint == Init /\ [][NextHint]_vars

(* --------- bulk construction next to one get_or_intern at a time ------- *)
\* get_or_intern of each string in order, by the caller (a panic ends it).
RECURSIVE Repeated(_, _)
Repeated(self, items) ==
    IF items = <<>> THEN self
    ELSE LET r == get_or_intern(self, Head(items))
         IN IF r.ret.panic THEN r.self
            ELSE Repeated(r.self, Tail(items))

\* Instance 1 is from_iter(iter); instance 2 is new(), given get_or_intern
\* of each string of iter.
FromIter ==
    \E iter \in Iterators(MaxIter) :
        LET r == from_iter(iter, Default_default)
        IN /\ ~r.ret.panic
           /\ Paired(r.ret.val, Repeated(new(Default_default), iter.items))

\* Instance 1 is extended by iter; instance 2 is given get_or_intern of each
\* string of iter.
Extend ==
    \E iter \in Iterators(MaxIter) :
        /\ Built = {1, 2}
        /\ interners' = <<extend(interners[1], iter).self,
                          Repeated(interners[2], iter.items)>>
        /\ UNCHANGED <<issued, cloned, diverged>>

NextBulk ==
    \/ FromIter
    \/ Extend
    \/ BothGet
    \/ BothResolve
    \/ BothLen

SpecBulk == Init /\ [][NextBulk]_vars

(* ------------------------ what the callers have seen ------------------ *)
\* The symbols instance i has issued for content s.
IssuedFor(i, s) == {p[2] : p \in {q \in issued[i] : q[1] = s}}

\* The symbols the original had issued for content s at clone().
ClonedFor(s) == {p[2] : p \in {q \in cloned : q[1] = s}}

\* The contents interned on instance i.
Interned(i) == {p[1] : p \in issued[i]}

AllIssued(i) == {p[2] : p \in issued[i]}

Exhausted(i) == Len(interners[i].backend) >= MaxSymbols

(* -------------------------------- C1 ---------------------------------- *)
\* C1 - Dedup: on the instance a constructor built, all get_or_intern calls
\* with the same content have returned one and the same symbol, whatever
\* calls (and growth of the dedup table) lay between them.
C1_Dedup ==
    1 \in Built => \A s \in Strings : Cardinality(IssuedFor(1, s)) <= 1

(* -------------------------------- C2 ---------------------------------- *)
\* C2 - Round-trip: in every reachable state of every instance and for every
\* string s, a get_or_intern(s) that returns yields a symbol that resolve
\* maps back to Some(s); so does every symbol issued for s earlier.
C2_RoundTrip ==
    \A i \in Built :
        /\ \A s \in Strings :
             LET r == get_or_intern(interners[i], s)
             IN ~r.ret.panic =>
                    resolve(r.self, r.ret.val).ret = Returned(Some(s))
        /\ \A p \in issued[i] :
             resolve(interners[i], p[2]).ret = Returned(Some(p[1]))

\* get_or_intern has returned symbols for two contents that share a hash code,
\* on an instance holding more strings than the smallest table takes.
C2_Witness ==
    \E i \in Built : \E s, t \in Strings :
        /\ s # t
        /\ IssuedFor(i, s) # {} /\ IssuedFor(i, t) # {}
        /\ make_hash(interners[i].hasher, s) = make_hash(interners[i].hasher, t)
        /\ len(interners[i]) > 3
        /\ resolve(interners[i], get_or_intern(interners[i], s).ret.val).ret
             = Returned(Some(s))

(* -------------------------------- C3 ---------------------------------- *)
\* C3 - Distinctness: on one instance no symbol has been returned by
\* get_or_intern* for two different contents, and a lookup (get, or the hit
\* of get_or_intern) of s only ever returns a symbol that resolves to s.
C3_Distinct ==
    \A i \in Built :
        /\ \A p, q \in issued[i] : p[2] = q[2] => p[1] = q[1]
        /\ \A s \in Strings :
             LET g == get(interners[i], s).ret
             IN (~g.panic /\ g.val.some) =>
                    backend_resolve(interners[i].backend, g.val.val) = Some(s)

\* Two different contents with the same hash code are both interned on one
\* instance and get finds a symbol for each.
C3_Witness ==
    \E i \in Built : \E a, b \in Strings :
        /\ a # b
        /\ make_hash(interners[i].hasher, a) = make_hash(interners[i].hasher, b)
        /\ IssuedFor(i, a) # {} /\ IssuedFor(i, b) # {}
        /\ get(interners[i], a).ret.val.some
        /\ get(interners[i], b).ret.val.some

(* -------------------------------- C4 ---------------------------------- *)
\* C4 - Global invariant: on the instance a constructor built, len() is the
\* number of distinct contents interned, and every symbol the backend
\* resolves is the key of exactly one entry of the dedup index.
C4_LenIsDistinct ==
    1 \in Built =>
        /\ len(interners[1]) = Cardinality(Interned(1))
        /\ \A symbol \in Symbols :
             backend_resolve(interners[1].backend, symbol).some =>
                Cardinality({k \in 1..Len(interners[1].dedup.entries) :
                               interners[1].dedup.entries[k].key = symbol}) = 1

(* -------------------------------- C5 ---------------------------------- *)
\* C5 - get is an exact lookup: on the instance a constructor built, get(s)
\* returns Some(the symbol get_or_intern returned for s) when s has been
\* interned and None when it never was.
C5_GetExact ==
    1 \in Built =>
        \A s \in Strings :
            LET g == get(interners[1], s).ret
            IN IF s \in Interned(1)
               THEN \E symbol \in IssuedFor(1, s) : g = Returned(Some(symbol))
               ELSE g = Returned(None)

(* -------------------------------- C6 ---------------------------------- *)
\* C6 - Pure query: get(s) for any s, resolve(sym) for any sym and len leave
\* the instance (dedup index, hasher, backend) exactly as it was.
C6_PureQuery ==
    \A i \in Built :
        /\ \A s \in Strings : get(interners[i], s).self = interners[i]
        /\ \A symbol \in Symbols :
             resolve(interners[i], symbol).self = interners[i]

\* get is asked for an interned content (Some) and for one never interned
\* (None) on an instance that holds strings.
C6_Witness ==
    \E i \in Built : \E s, t \in Strings :
        /\ len(interners[i]) > 0
        /\ s \in Interned(i) /\ get(interners[i], s).ret.val.some
        /\ t \notin Interned(i) /\ get(interners[i], t).ret = Returned(None)

(* -------------------------------- C7 ---------------------------------- *)
\* C7 - Unknown symbol: resolve of a symbol the instance never issued
\* returns None without panicking, and the answer does not depend on the
\* dedup index.
C7_UnknownSymbol ==
    \A i \in Built :
        /\ \A symbol \in Symbols \ AllIssued(i) :
             resolve(interners[i], symbol).ret = Returned(None)
        /\ \A symbol \in Symbols :
             resolve([interners[i] EXCEPT !.dedup = HashMap_default], symbol).ret
               = resolve(interners[i], symbol).ret

\* An instance that has issued symbols is asked for one it never issued.
C7_Witness ==
    \E i \in Built : \E symbol \in Symbols :
        /\ AllIssued(i) # {}
        /\ symbol \notin AllIssued(i)
        /\ resolve(interners[i], symbol).ret = Returned(None)

(* -------------------------------- C8 ---------------------------------- *)
\* C8 - Static and ordinary interning are unified: in every reachable state
\* and for every content s, get_or_intern(s) followed by
\* get_or_intern_static(s), and the two in the other order, return the same
\* symbol, the second call leaving len() as it is; and the static call has
\* the result and the effect of the ordinary one.
C8_StaticUnified ==
    \A i \in Built : \A s \in Strings :
        LET o == get_or_intern(interners[i], s)
            os == get_or_intern_static(o.self, s)
            t == get_or_intern_static(interners[i], s)
            to == get_or_intern(t.self, s)
        IN /\ ~o.ret.panic => (os.ret = o.ret /\ len(os.self) = len(o.self))
           /\ ~t.ret.panic => (to.ret = t.ret /\ len(to.self) = len(t.self))
           /\ t = o

(* -------------------------------- C9 ---------------------------------- *)
\* C9 - Fatal exhaustion: with the symbol space exhausted, get_or_intern and
\* get_or_intern_static of a content not interned on the instance panic,
\* return no symbol and leave the instance as it was (len, every entry of
\* the index, the backend); get of that content is still None.
C9_Exhaustion ==
    \A i \in Built :
        Exhausted(i) => \A s \in Strings \ Interned(i) :
            LET o == get_or_intern(interners[i], s)
                t == get_or_intern_static(interners[i], s)
            IN /\ o.ret.panic /\ t.ret.panic
               /\ o.self = interners[i] /\ t.self = interners[i]
               /\ len(o.self) = len(interners[i])
               /\ get(o.self, s).ret = Returned(None)
               /\ get(t.self, s).ret = Returned(None)

\* The symbol space of an instance is exhausted and a content has never been
\* interned on it: interning it panics.
C9_Witness ==
    \E i \in Built : \E s \in Strings :
        /\ Exhausted(i)
        /\ s \notin Interned(i)
        /\ get_or_intern(interners[i], s).ret.panic

(* -------------------------------- C10 --------------------------------- *)
\* C10 - A clone upholds the dedup invariant in isolation: for every content
\* s the original had interned at clone(), get(s) on the clone returns the
\* symbol the original issued for it, get_or_intern(s) on the clone returns
\* that symbol without increasing the clone's len(), and the clone's len()
\* is its number of distinct interned contents.
C10_CloneDedup ==
    2 \in Built =>
        /\ \A s \in Strings :
             ClonedFor(s) # {} =>
                LET g == get(interners[2], s).ret
                    r == get_or_intern(interners[2], s)
                IN /\ \E symbol \in ClonedFor(s) : g = Returned(Some(symbol))
                   /\ \E symbol \in ClonedFor(s) : r.ret = Returned(symbol)
                   /\ len(r.self) = len(interners[2])
        /\ len(interners[2]) = Cardinality(Interned(2))


(* -------------------------------- C11 --------------------------------- *)
\* C11 - A clone is an independent snapshot: the clone() step leaves the
\* original as it was and yields an instance with the same len() on which
\* every symbol the original has issued resolves to the same string as on
\* the original; and every later step that changes one of the two instances
\* leaves len() and every get / resolve result of the other as they were.
C11_CloneSnapshot ==
    [][/\ (Built = {1} /\ DOMAIN interners' = {1, 2}) =>
            /\ interners'[1] = interners[1]
            /\ len(interners'[2]) = len(interners'[1])
            /\ \A p \in issued[1] :
                 /\ resolve(interners'[2], p[2]).ret
                      = resolve(interners'[1], p[2]).ret
                 /\ resolve(interners'[2], p[2]).ret = Returned(Some(p[1]))
       /\ Built = {1, 2} =>
            \A i \in {1, 2} :
                interners'[i] # interners[i] =>
                    LET j == 3 - i
                    IN /\ len(interners'[j]) = len(interners[j])
                       /\ \A s \in Strings :
                            get(interners'[j], s).ret = get(interners[j], s).ret
                       /\ \A symbol \in Symbols :
                            resolve(interners'[j], symbol).ret
                              = resolve(interners[j], symbol).ret]_vars

\* An instance with 3 entries was cloned and a new string was interned into
\* the clone: the original still has its 3 entries, and every symbol it had
\* issued resolves on both instances to the same string.
C11_Witness ==
    /\ Built = {1, 2}
    /\ diverged = 2
    /\ Cardinality(cloned) = 3
    /\ len(interners[1]) = 3
    /\ len(interners[2]) = 4
    /\ \A p \in cloned :
         /\ resolve(interners[1], p[2]).ret = Returned(Some(p[1]))
         /\ resolve(interners[2], p[2]).ret = Returned(Some(p[1]))


(* -------------------------------- C12 --------------------------------- *)
\* C12 - Capacity hints never affect results: an instance built by
\* with_capacity(cap) (or with_capacity_and_hasher(cap, h)) and one built by
\* new() (or with_hasher(h)), given the same calls so far, answer every next
\* call alike: get_or_intern and get_or_intern_static return the same symbol
\* (or panic alike), get and resolve return the same Option, len() is equal.
C12_HintsNeverAffect ==
    Built = {1, 2} =>
        /\ len(interners[1]) = len(interners[2])
        /\ \A s \in Strings :
             /\ get_or_intern(interners[1], s).ret
                  = get_or_intern(interners[2], s).ret
             /\ get_or_intern_static(interners[1], s).ret
                  = get_or_intern_static(interners[2], s).ret
             /\ get(interners[1], s).ret = get(interners[2], s).ret
        /\ \A symbol \in Symbols :
             resolve(interners[1], symbol).ret = resolve(interners[2], symbol).ret


(* -------------------------------- C13 --------------------------------- *)
\* C13 - Bulk construction and extension reduce to repeated get_or_intern:
\* from_iter(seq), also after any number of extend(seq'), and new() followed
\* by get_or_intern of each of the same strings in order have the same
\* len(), the same get result for every string and the same resolve result
\* for every symbol.
C13_BulkIsRepeated ==
    Built = {1, 2} =>
        /\ len(interners[1]) = len(interners[2])
        /\ \A s \in Strings :
             get(interners[1], s).ret = get(interners[2], s).ret
        /\ \A symbol \in Symbols :
             resolve(interners[1], symbol).ret = resolve(interners[2], symbol).ret


(* -------------------------------- C14 --------------------------------- *)
\* C14 - Equality: a == b holds if and only if a and b hold the same number
\* of entries and their backends are equal, whatever their hashers and the
\* layout of their dedup tables. Stated of the two instances built, of the
\* clone of the first (its hasher is the default one) next to the second,
\* and of each of them after one more get_or_intern on either side.
C14_Equality ==
    Built = {1, 2} =>
        \A a \in {interners[1], clone(interners[1], Default_default)} :
            LET b == interners[2]
            IN /\ eq(a, b) <=> (/\ Len(a.dedup.entries) = Len(b.dedup.entries)
                                /\ a.backend = b.backend)
               /\ \A s, t \in Strings :
                    LET a2 == get_or_intern(a, s).self
                        b2 == get_or_intern(b, t).self
                    IN eq(a2, b2) <=>
                          (/\ Len(a2.dedup.entries) = Len(b2.dedup.entries)
                           /\ a2.backend = b2.backend)

\* Two instances hold the same strings in tables laid out differently: they
\* are equal, as is the clone of the first, whose hasher is another one; and
\* after interning one string into the one and another string into the other
\* they hold the same number of entries and are not equal.
C14_Witness ==
    /\ Built = {1, 2}
    /\ len(interners[1]) > 0
    /\ interners[1].dedup # interners[2].dedup
    /\ eq(interners[1], interners[2])
    /\ clone(interners[1], Default_default).hasher # interners[2].hasher
    /\ eq(clone(interners[1], Default_default), interners[2])
    /\ \E s, t \in Strings :
         LET a2 == get_or_intern(interners[1], s).self
             b2 == get_or_intern(interners[2], t).self
         IN len(a2) = len(b2) /\ ~eq(a2, b2)


(* -------------------------------- C15 --------------------------------- *)
\* C15 - Idempotent length: in every reachable state of every instance, for
\* content s not yet interned on it, get_or_intern(s) called n times in a
\* row (calls that return) leaves len() increased by exactly 1: the first
\* call adds one entry, the second returns the same symbol and leaves the
\* instance exactly as the first left it, so that every call after it is
\* the second call again.
C15_IdempotentLen ==
    \A i \in Built : \A s \in Strings \ Interned(i) :
        LET r1 == get_or_intern(interners[i], s)
            r2 == get_or_intern(r1.self, s)
        IN ~r1.ret.panic =>
              /\ len(r1.self) = len(interners[i]) + 1
              /\ r2.ret = r1.ret /\ r2.self = r1.self
              /\ len(r2.self) = len(interners[i]) + 1

\* A content not yet interned is interned on an instance whose table is
\* full: the first call grows the table and adds one entry, the next adds
\* none.
C15_Witness ==
    \E i \in Built : \E s \in Strings \ Interned(i) :
        LET r1 == get_or_intern(interners[i], s)
            r2 == get_or_intern(r1.self, s)
        IN /\ len(interners[i]) >= 3
           /\ ~r1.ret.panic
           /\ r1.self.dedup.buckets > interners[i].dedup.buckets
           /\ len(r1.self) = len(interners[i]) + 1
           /\ len(r2.self) = len(r1.self)


(* -------------------------------- C16 --------------------------------- *)
\* C16 - Index placement invariant: in every reachable state of every
\* instance, each symbol held in the dedup table is filed under the hash
\* code that the instance's own hasher gives to the string the symbol
\* resolves to (after an insertion, after a growth of the table during an
\* insertion, after clone()).
C16_Placement ==
    \A i \in Built :
        \A k \in 1..Len(interners[i].dedup.entries) :
            LET entry == interners[i].dedup.entries[k]
                resolved == backend_resolve(interners[i].backend, entry.key)
            IN /\ resolved.some
               /\ entry.hash = make_hash(interners[i].hasher, resolved.val)

(* -------------------------------- C17 --------------------------------- *)
\* C17 - A hit does not touch the backend: get_or_intern and
\* get_or_intern_static of a content already interned on the instance
\* return a symbol issued for it and leave the backend and len() as they
\* were (nothing is stored, no symbol is minted); of a content not interned
\* they store exactly one string, the content, under the symbol returned.
C17_HitLeavesBackend ==
    \A i \in Built : \A s \in Strings :
        \A r \in {get_or_intern(interners[i], s),
                   get_or_intern_static(interners[i], s)} :
            IF s \in Interned(i)
            THEN /\ ~r.ret.panic
                 /\ r.ret.val \in IssuedFor(i, s)
                 /\ r.self.backend = interners[i].backend
                 /\ len(r.self) = len(interners[i])
            ELSE ~r.ret.panic =>
                    /\ Len(r.self.backend) = Len(interners[i].backend) + 1
                    /\ r.self.backend = Append(interners[i].backend, s)
                    /\ r.ret.val = Len(r.self.backend)


(* -------------------------------- C18 --------------------------------- *)
\* C18 - Internal consistency: in every reachable state of every instance
\* (after interns, after clone(), after an intern aborted by symbol-space
\* exhaustion) every symbol stored in the dedup index resolves in the
\* instance's own backend to Some string, and no get, get_or_intern or
\* get_or_intern_static panics with "encountered missing symbol"; the same
\* holds of the instance each get_or_intern* leaves behind, returning or
\* aborted.
C18_Consistent ==
    \A i \in Built :
        /\ \A k \in 1..Len(interners[i].dedup.entries) :
             backend_resolve(interners[i].backend,
                             interners[i].dedup.entries[k].key).some
        /\ \A s \in Strings :
             /\ get(interners[i], s).ret
                  # Panicked("encountered missing symbol")
             /\ \A r \in {get_or_intern(interners[i], s),
                           get_or_intern_static(interners[i], s)} :
                  /\ r.ret # Panicked("encountered missing symbol")
                  /\ \A k \in 1..Len(r.self.dedup.entries) :
                       backend_resolve(r.self.backend,
                                       r.self.dedup.entries[k].key).some

\* A clone that holds symbols has exhausted its symbol space: an intern of a
\* content not interned on it aborts, and the probes of get still resolve
\* every symbol they meet.
C18_Witness ==
    /\ 2 \in Built
    /\ cloned # {}
    /\ Exhausted(2)
    /\ \E s \in Strings \ Interned(2) :
         LET r == get_or_intern(interners[2], s)
         IN /\ r.ret = Panicked("symbol space exhausted")
            /\ \A t \in Strings : ~get(r.self, t).ret.panic


C20_ExhaustionOnlyNew ==
    \A i \in Built :
        Exhausted(i) =>
            \A s \in Strings :
                \A r \in {get_or_intern(interners[i], s),
                           get_or_intern_static(interners[i], s)} :
                    IF s \in Interned(i)
                    THEN /\ ~r.ret.panic
                         /\ r.ret.val \in IssuedFor(i, s)
                         /\ r.self = interners[i]
                    ELSE r.ret.panic

====
